---- MODULE Spec2Model ----
(***************************************************************************)
(* Article repository of go-tech-blog (repository/article_repository.go). *)
(* The articles table, its AUTO_INCREMENT counter and the wall clock are  *)
(* the shared state; every caller of the repository is a process whose    *)
(* position inside a repository function is pc[p].  A mutating function   *)
(* is three steps (begin, exec, commit/rollback) so that the calls of     *)
(* different callers interleave the way the database lets them.           *)
(***************************************************************************)
EXTENDS Integers, Sequences, FiniteSets, TLC

VARIABLES
    articles,   \* committed rows of table articles
    lastId,     \* AUTO_INCREMENT counter of articles.id: the last id handed out
    now,        \* wall clock, as read by time.Now()
    pc,         \* pc[p]: where caller p stands inside a repository function
    op,         \* op[p]: the repository function p is running
    arg,        \* arg[p]: the *model.Article (or the id) p passed in
    tx,         \* tx[p]: the statement staged in p's open transaction
    ret,        \* ret[p]: what the function returned to p
    cursor,     \* the paging caller's next cursor
    page,       \* the page the paging caller fetched last
    seen,       \* ids the paging caller has been handed, in order
    startIds,   \* ids committed when the paging caller started
    tagMap,     \* the map TagListMapByArticleIDs returned
    fetched,    \* ArticleListWithTags: the articles its query returned
    calls,      \* ArticleListWithTags: queries and tag calls made so far
    started,    \* repository calls begun so far
    paging,     \* the paging caller: where it stands, and its first cursor
    result      \* ArticleListWithTags: the articles it returned

crudVars == <<articles, lastId, now, pc, op, arg, tx, ret>>
pageVars == <<cursor, page, seen, startIds, paging>>
tagVars  == <<tagMap, fetched, calls, result>>
vars     == <<articles, lastId, now, pc, op, arg, tx, ret,
              cursor, page, seen, startIds, tagMap, fetched, calls, started,
              paging, result>>

----------------------------------------------------------------------------
(* Bounds and program constants *)

MaxArticles == 2        \* rows the CRUD callers may insert
MaxCalls    == 3        \* repository calls the callers make
MaxTime     == 1        \* last tick of the clock
MaxListId   == 11       \* small ids a paged store may hold
MaxInserts  == 1        \* inserts that may run beside a paging caller
MaxTagged   == 3        \* articles of a ListWithTags store

MaxInt32 == 2147483647  \* math.MaxInt32
PageSize == 10          \* LIMIT 10

Procs  == {"c1", "c2"}
NULL   == 0             \* writer_id IS NULL

Min(a, b) == IF a < b THEN a ELSE b

SetMax(S) == CHOOSE x \in S : \A y \in S : y <= x

Ids(rows) == {r.id : r \in rows}

(* A row of table articles. *)
Row(id, title, body, created, updated, writer) ==
    [id |-> id, title |-> title, body |-> body,
     created |-> created, updated |-> updated, writer_id |-> writer]

NoRow == Row(0, "", "", 0, 0, NULL)

(* The *model.Article a caller passes in. *)
Article(id, title, body, created, updated) ==
    [ID |-> id, Title |-> title, Body |-> body,
     Created |-> created, Updated |-> updated]

NoArticle == Article(0, "", "", 0, 0)

NoTx  == [kind |-> "none", row |-> NoRow, n |-> 0]
NoRet == [status |-> "none", id |-> 0, rows |-> 0, article |-> NoRow]

----------------------------------------------------------------------------
(* The SQL statements *)

(* INSERT INTO articles (title, body, created, updated) VALUES (...):     *)
(* the id comes from AUTO_INCREMENT, writer_id keeps its default NULL.    *)
InsertRow(a, id) == Row(id, a.Title, a.Body, a.Created, a.Updated, NULL)

(* AUTO_INCREMENT: the next id, and no further than the column's maximum. *)
NextId(last) == IF last < MaxInt32 THEN last + 1 ELSE MaxInt32

(* UPDATE articles SET title, body, updated WHERE id = :id *)
UpdateRows(rows, a) ==
    {IF r.id = a.id
        THEN [r EXCEPT !.title = a.title, !.body = a.body, !.updated = a.updated]
        ELSE r : r \in rows}

DeleteRowsUpTo(rows, id) == {r \in rows : r.id > id}

(* DELETE FROM articles WHERE id = ? *)
DeleteRows(rows, id) == {r \in rows : r.id # id}

(* What a staged statement does to the table once it is committed. *)
Apply(rows, t) ==
    CASE t.kind = "insert" -> rows \cup {t.row}
      [] t.kind = "update" -> UpdateRows(rows, t.row)
      [] t.kind = "delete" -> DeleteRows(rows, t.row.id)
      [] OTHER             -> rows

RollbackKeeps(rows, t) == Apply(rows, t)

(* tx.Rollback(): the staged statement is discarded. *)
Rollback(rows, t) == rows

(* tx.Commit(): all of the transaction or, when it fails, none of it. *)
Commit(rows, t, ok) == IF ok THEN Apply(rows, t) ELSE rows

(* Row and gap locks: an uncommitted statement holds the key it named     *)
(* (the row, or the gap where the row would be) until its transaction     *)
(* ends, so two transactions on one id run one after the other.           *)
Locked(p, id) ==
    \E q \in Procs \ {p} :
        /\ tx[q].kind # "none"
        /\ tx[q].row.id = id

(* Rows a WHERE id = ? matches. *)
Matched(rows, id) == Cardinality({r \in rows : r.id = id})

(* SELECT * FROM articles WHERE id = ? through db.Get: sql.ErrNoRows when *)
(* nothing matches.                                                       *)
ArticleGetByIDResult(rows, id) ==
    IF \E r \in rows : r.id = id
        THEN [NoRet EXCEPT !.status = "ok",
                           !.article = CHOOSE r \in rows : r.id = id]
        ELSE [NoRet EXCEPT !.status = "notfound"]

----------------------------------------------------------------------------
(* Callers *)

Idle == [p \in Procs |-> "idle"]

InitCommon ==
    /\ now = 0
    /\ pc = Idle
    /\ op = [p \in Procs |-> "none"]
    /\ arg = [p \in Procs |-> NoArticle]
    /\ tx = [p \in Procs |-> NoTx]
    /\ ret = [p \in Procs |-> NoRet]
    /\ started = 0
    /\ page = <<>>
    /\ seen = <<>>
    /\ startIds = {}
    /\ tagMap = <<>>
    /\ fetched = <<>>
    /\ calls = [articles |-> 0, tags |-> 0, state |-> "idle", ids |-> <<>>]
    /\ result = <<>>

Init ==
    /\ InitCommon
    /\ articles = {}
    /\ lastId = 0
    /\ cursor = 0
    /\ paging = [state |-> "ready", first |-> 0]

(* Inserts begun and not yet given an id. *)
Inserting == Cardinality({q \in Procs : pc[q] = "exec" /\ op[q] = "create"})

(* db.MustBegin() panics when the transaction cannot be opened. *)
Begin(p, name, a, ok) ==
    /\ pc[p] \in {"idle", "done"}
    /\ started < MaxCalls
    /\ started' = started + 1
    /\ op' = [op EXCEPT ![p] = name]
    /\ IF ok
          THEN /\ pc' = [pc EXCEPT ![p] = "exec"]
               /\ arg' = [arg EXCEPT ![p] = a]
               /\ ret' = [ret EXCEPT ![p] = NoRet]
          ELSE /\ pc' = [pc EXCEPT ![p] = "done"]
               /\ arg' = [arg EXCEPT ![p] = NoArticle]
               /\ ret' = [ret EXCEPT ![p] = [NoRet EXCEPT !.status = "panic"]]
    /\ UNCHANGED <<articles, lastId, now, tx>>

(* The error branch after tx.Exec / tx.NamedExec: roll back, return err.  *)
(* staged is what the failed statement left in the transaction.           *)
ExecFailed(p, staged) ==
    /\ articles' = Rollback(articles, staged)
    /\ tx' = [tx EXCEPT ![p] = NoTx]
    /\ ret' = [ret EXCEPT ![p] = [NoRet EXCEPT !.status = "err"]]
    /\ arg' = [arg EXCEPT ![p] = NoArticle]
    /\ pc' = [pc EXCEPT ![p] = "done"]

(* ArticleCreate, lines 13-24: stamp Created and Updated, open the tx. *)
ArticleCreateBegin(p) ==
    \E i \in {1, 2}, ok \in BOOLEAN :
        LET title == IF i = 1 THEN "t1" ELSE "t2"
            body  == IF i = 1 THEN "b1" ELSE "b2"
            a     == Article(i - 1, title, body, MaxTime, 0)
        IN  Begin(p, "create",
                  [a EXCEPT !.Created = now, !.Updated = now], ok)

(* ArticleCreate, lines 29-36: the INSERT, and rollback when it fails. *)
ArticleCreateExec(p) ==
    /\ pc[p] = "exec"
    /\ op[p] = "create"
    /\ ~Locked(p, NextId(lastId))
    /\ LET id     == NextId(lastId)
           staged == [kind |-> "insert", row |-> InsertRow(arg[p], id), n |-> 1]
       IN  \/ /\ lastId < MaxInt32
              /\ tx' = [tx EXCEPT ![p] = staged]
              /\ lastId' = id
              /\ pc' = [pc EXCEPT ![p] = "commit"]
              /\ UNCHANGED <<articles, ret, arg>>
           \/ /\ lastId < MaxInt32
              /\ ExecFailed(p, staged)
              /\ lastId' = id
           \/ /\ ExecFailed(p, NoTx)
              /\ lastId' = lastId
    /\ UNCHANGED <<now, op>>

CreateReturn(ok, id) == [NoRet EXCEPT !.status = "ok", !.id = id, !.rows = 1]

(* ArticleCreate, lines 39-42: tx.Commit() with its error dropped, then   *)
(* return res, nil.                                                       *)
ArticleCreateCommit(p) ==
    /\ pc[p] = "commit"
    /\ op[p] = "create"
    /\ \E ok \in BOOLEAN :
        /\ articles' = Commit(articles, tx[p], ok)
        /\ ret' = [ret EXCEPT ![p] = CreateReturn(ok, tx[p].row.id)]
    /\ tx' = [tx EXCEPT ![p] = NoTx]
    /\ arg' = [arg EXCEPT ![p] = NoArticle]
    /\ pc' = [pc EXCEPT ![p] = "done"]
    /\ UNCHANGED <<lastId, now, op>>

(* ArticleUpdate, lines 117-130: stamp Updated, open the tx. *)
ArticleUpdateBegin(p) ==
    \E id \in 1..MaxArticles, i \in {1, 2}, ok \in BOOLEAN :
        LET title == IF i = 1 THEN "t1" ELSE "t2"
            body  == IF i = 1 THEN "b1" ELSE "b2"
            a     == Article(id, title, body, 0, 0)
        IN  Begin(p, "update", [a EXCEPT !.Updated = now], ok)

(* ArticleUpdate, lines 136-144: the UPDATE, and rollback when it fails. *)
ArticleUpdateExec(p) ==
    /\ pc[p] = "exec"
    /\ op[p] = "update"
    /\ ~Locked(p, arg[p].ID)
    /\ LET a      == arg[p]
           staged == [kind |-> "update",
                      row |-> Row(a.ID, a.Title, a.Body, 0, a.Updated, NULL),
                      n |-> Matched(articles, a.ID)]
       IN  \/ /\ tx' = [tx EXCEPT ![p] = staged]
              /\ pc' = [pc EXCEPT ![p] = "commit"]
              /\ UNCHANGED <<articles, ret, arg>>
           \/ ExecFailed(p, staged)
           \/ ExecFailed(p, NoTx)
    /\ UNCHANGED <<lastId, now, op>>

UpdateReturn(ok, n) == [NoRet EXCEPT !.status = "ok", !.rows = n]

(* ArticleUpdate, lines 147-150: tx.Commit() with its error dropped, then *)
(* return res, nil.                                                       *)
ArticleUpdateCommit(p) ==
    /\ pc[p] = "commit"
    /\ op[p] = "update"
    /\ \E ok \in BOOLEAN :
        /\ articles' = Commit(articles, tx[p], ok)
        /\ ret' = [ret EXCEPT ![p] = UpdateReturn(ok, tx[p].n)]
    /\ tx' = [tx EXCEPT ![p] = NoTx]
    /\ arg' = [arg EXCEPT ![p] = NoArticle]
    /\ pc' = [pc EXCEPT ![p] = "done"]
    /\ UNCHANGED <<lastId, now, op>>

(* ArticleDelete, lines 74-77: open the tx. *)
ArticleDeleteBegin(p) ==
    \E id \in 1..MaxArticles, ok \in BOOLEAN :
        Begin(p, "delete", [NoArticle EXCEPT !.ID = id], ok)

(* ArticleDelete, lines 80-86: the DELETE, and rollback when it fails. *)
ArticleDeleteExec(p) ==
    /\ pc[p] = "exec"
    /\ op[p] = "delete"
    /\ ~Locked(p, arg[p].ID)
    /\ LET staged == [kind |-> "delete",
                      row |-> [NoRow EXCEPT !.id = arg[p].ID],
                      n |-> Matched(articles, arg[p].ID)]
       IN  \/ /\ tx' = [tx EXCEPT ![p] = staged]
              /\ pc' = [pc EXCEPT ![p] = "commit"]
              /\ UNCHANGED <<articles, ret, arg>>
           \/ ExecFailed(p, staged)
           \/ ExecFailed(p, NoTx)
    /\ UNCHANGED <<lastId, now, op>>

(* ArticleDelete, line 89: return tx.Commit() *)
DeleteReturn(ok, n) ==
    IF ok THEN [NoRet EXCEPT !.status = "ok", !.rows = n]
          ELSE [NoRet EXCEPT !.status = "err"]

ArticleDeleteCommit(p) ==
    /\ pc[p] = "commit"
    /\ op[p] = "delete"
    /\ \E ok \in BOOLEAN :
        /\ articles' = Commit(articles, tx[p], ok)
        /\ ret' = [ret EXCEPT ![p] = DeleteReturn(ok, tx[p].n)]
    /\ tx' = [tx EXCEPT ![p] = NoTx]
    /\ arg' = [arg EXCEPT ![p] = NoArticle]
    /\ pc' = [pc EXCEPT ![p] = "done"]
    /\ UNCHANGED <<lastId, now, op>>

(* ArticleGetByID, lines 93-112: one db.Get outside any transaction. *)
ArticleGetByID(p) ==
    /\ pc[p] \in {"idle", "done"}
    /\ started < MaxCalls
    /\ started' = started + 1
    /\ \E id \in 1..MaxArticles, ok \in BOOLEAN :
        /\ arg' = [arg EXCEPT ![p] = NoArticle]
        /\ ret' = [ret EXCEPT ![p] =
                     IF ok THEN ArticleGetByIDResult(articles, id)
                           ELSE [NoRet EXCEPT !.status = "err"]]
    /\ op' = [op EXCEPT ![p] = "get"]
    /\ pc' = [pc EXCEPT ![p] = "done"]
    /\ UNCHANGED <<articles, lastId, now, tx>>

(* The wall clock advances between two readings of time.Now(). *)
Tick ==
    /\ now < MaxTime
    /\ now' = now + 1
    /\ UNCHANGED <<articles, lastId, pc, op, arg, tx, ret>>

Next ==
    \/ \E p \in Procs :
          /\ lastId + Inserting < MaxArticles
          /\ ArticleCreateBegin(p)
          /\ UNCHANGED <<pageVars, tagVars>>
    \/ \E p \in Procs : ArticleCreateExec(p) /\ UNCHANGED <<pageVars, tagVars, started>>
    \/ \E p \in Procs : ArticleCreateCommit(p) /\ UNCHANGED <<pageVars, tagVars, started>>
    \/ \E p \in Procs : ArticleUpdateBegin(p) /\ UNCHANGED <<pageVars, tagVars>>
    \/ \E p \in Procs : ArticleUpdateExec(p) /\ UNCHANGED <<pageVars, tagVars, started>>
    \/ \E p \in Procs : ArticleUpdateCommit(p) /\ UNCHANGED <<pageVars, tagVars, started>>
    \/ \E p \in Procs : ArticleDeleteBegin(p) /\ UNCHANGED <<pageVars, tagVars>>
    \/ \E p \in Procs : ArticleDeleteExec(p) /\ UNCHANGED <<pageVars, tagVars, started>>
    \/ \E p \in Procs : ArticleDeleteCommit(p) /\ UNCHANGED <<pageVars, tagVars, started>>
    \/ \E p \in Procs : ArticleGetByID(p) /\ UNCHANGED <<pageVars, tagVars>>
    \/ Tick /\ UNCHANGED <<pageVars, tagVars, started>>

Spec == Init /\ [][Next]_vars

----------------------------------------------------------------------------
(* Properties of the mutating functions *)

Mutating == {"create", "update", "delete"}

(* p's call returns in this step. *)
Returns(p, name, status) ==
    /\ pc[p] \in {"exec", "commit"}
    /\ op[p] = name
    /\ pc'[p] = "done"
    /\ ret'[p].status = status

(* C3: a call of ArticleCreate, ArticleUpdate or ArticleDelete that       *)
(* returns an error leaves the committed rows as they were, and the       *)
(* committed rows change only in the step of a commit that succeeded.     *)
C3_ErrorLeavesRows ==
    [][/\ \A p \in Procs, name \in Mutating :
            Returns(p, name, "err") => articles' = articles
       /\ articles' # articles =>
            \E p \in Procs : pc[p] = "commit" /\ ret'[p].status = "ok"]_vars

C3_Witness ==
    \E p \in Procs :
        /\ pc[p] = "done"
        /\ op[p] \in Mutating
        /\ ret[p].status = "err"
        /\ articles # {}

(* C4: a mutating call that returns nil has committed its statement: the  *)
(* committed rows are the rows before with the staged statement applied.  *)
C4_SuccessIsCommitted ==
    [][\A p \in Procs, name \in Mutating :
          Returns(p, name, "ok") => articles' = Apply(articles, tx[p])]_vars

(* C5: no step lowers a row's updated or changes its created. *)
C5_UpdatedMonotone ==
    [][\A r \in articles, s \in articles' :
          r.id = s.id => s.updated >= r.updated /\ s.created = r.created]_vars

(* C6: when ArticleCreate returns nil, ArticleGetByID on the generated id *)
(* finds a row with the title and body passed in, created = updated = the *)
(* time the store stamped, and an id no other row has.                    *)
C6_CreateThenGet ==
    [][\A p \in Procs :
          Returns(p, "create", "ok") =>
            LET g == ArticleGetByIDResult(articles', ret'[p].id)
            IN  /\ g.status = "ok"
                /\ g.article.title = arg[p].Title
                /\ g.article.body = arg[p].Body
                /\ g.article.created = g.article.updated
                /\ g.article.created = arg[p].Created
                /\ g.article.id \notin Ids(articles)
                /\ Cardinality({r \in articles' : r.id = g.article.id}) = 1]_vars

(* C7: when ArticleUpdate returns nil, the row with the article's id has  *)
(* the new title and body and a strictly later updated, its id, created   *)
(* and writer_id are as before, every other row is as before, and no row  *)
(* appears or disappears.                                                 *)
C7_UpdateFrame ==
    [][\A p \in Procs :
          Returns(p, "update", "ok") =>
            /\ Ids(articles') = Ids(articles)
            /\ \A r \in articles :
                 IF r.id # arg[p].ID
                    THEN r \in articles'
                    ELSE \E s \in articles' :
                           /\ s.id = r.id
                           /\ s.title = arg[p].Title
                           /\ s.body = arg[p].Body
                           /\ s.updated > r.updated
                           /\ s.created = r.created
                           /\ s.writer_id = r.writer_id]_vars

(* C8: when ArticleDelete returns nil, the committed rows are the rows    *)
(* before without the row of that id, and ArticleGetByID on that id finds *)
(* nothing.                                                               *)
C8_DeleteRemovesOnlyThatRow ==
    [][\A p \in Procs :
          Returns(p, "delete", "ok") =>
            /\ articles' = {r \in articles : r.id # arg[p].ID}
            /\ ArticleGetByIDResult(articles', arg[p].ID).status = "notfound"]_vars

C8_Witness ==
    \E p \in Procs :
        /\ pc[p] = "done"
        /\ op[p] = "delete"
        /\ ret[p].status = "ok"
        /\ ret[p].rows = 1
        /\ articles # {}

----------------------------------------------------------------------------
(* ArticleListByCursor and a caller that pages with it *)

(* Lines 48-50: a cursor of zero or less becomes math.MaxInt32. *)
Bound(c) == IF c <= 0 THEN MaxInt32 ELSE c

SelectBelowOrEqual(rows, c) == {r \in rows : r.id <= c}

(* WHERE id < ? *)
SelectBelow(rows, c) == {r \in rows : r.id < c}

(* ORDER BY id desc *)
RECURSIVE OrderByIdDesc(_)
OrderByIdDesc(rows) ==
    IF rows = {} THEN <<>>
    ELSE LET top == CHOOSE r \in rows : \A s \in rows : s.id <= r.id
         IN  <<top>> \o OrderByIdDesc(rows \ {top})

(* LIMIT n *)
Limit(q, n) == SubSeq(q, 1, Min(n, Len(q)))

(* Lines 46-69: the slice ArticleListByCursor returns when db.Select      *)
(* succeeds.                                                              *)
ArticleListByCursorResult(rows, c) ==
    Limit(OrderByIdDesc(SelectBelow(rows, Bound(c))), PageSize)

IdsOf(q) == [i \in 1..Len(q) |-> q[i].id]
Range(q) == {q[i] : i \in 1..Len(q)}

(* One call of ArticleListByCursor(cursor) by the paging caller, who then *)
(* takes the smallest id of the page as the next cursor and stops at an   *)
(* empty page or an error.                                                *)
ArticleListByCursor ==
    /\ paging.state \in {"ready", "paging"}
    /\ \E ok \in BOOLEAN :
        IF ok
          THEN LET got == ArticleListByCursorResult(articles, cursor)
               IN  /\ page' = got
                   /\ seen' = seen \o IdsOf(got)
                   /\ cursor' = IF got = <<>> THEN cursor ELSE got[Len(got)].id
                   /\ paging' = [paging EXCEPT
                                   !.state = IF got = <<>> THEN "end" ELSE "paging"]
          ELSE /\ page' = <<>>
               /\ paging' = [paging EXCEPT !.state = "failed"]
               /\ UNCHANGED <<seen, cursor>>
    /\ startIds' = IF paging.state = "ready" THEN Ids(articles) ELSE startIds
    /\ UNCHANGED <<crudVars, tagVars, started>>

(* Stores a list is taken of: any rows left of ids 1..MaxListId, and the  *)
(* row with the last id an INT column can hold.                           *)
ListIdPool == (1..MaxListId) \cup {MaxInt32}
Cursors    == (-2..(MaxListId + 1)) \cup {MaxInt32}

StoreOf(S) == {Row(i, "t1", "b1", 0, 0, NULL) : i \in S}

InitStore ==
    \E S \in SUBSET ListIdPool :
        /\ articles = StoreOf(S)
        /\ lastId = IF S = {} THEN 0 ELSE SetMax(S)

InitList ==
    /\ InitCommon
    /\ InitStore
    /\ cursor \in Cursors
    /\ paging = [state |-> "ready", first |-> cursor]

NextList == ArticleListByCursor

SpecList == InitList /\ [][NextList]_vars

InitPage ==
    /\ InitCommon
    /\ InitStore
    /\ cursor = 0
    /\ paging = [state |-> "ready", first |-> 0]

NextPage ==
    \/ ArticleListByCursor
    \/ /\ started < MaxInserts
       /\ ArticleCreateBegin("c1")
       /\ UNCHANGED <<pageVars, tagVars>>
    \/ ArticleCreateExec("c1") /\ UNCHANGED <<pageVars, tagVars, started>>
    \/ ArticleCreateCommit("c1") /\ UNCHANGED <<pageVars, tagVars, started>>

SpecPage == InitPage /\ [][NextPage]_vars

(* A call of ArticleListByCursor that returned its slice. *)
Fetched ==
    /\ paging.state \in {"ready", "paging"}
    /\ paging'.state \in {"paging", "end"}

StrictlyDescending(q) ==
    \A i \in 1..Len(q) : \A j \in 1..Len(q) : i < j => q[i].id > q[j].id

(* The n rows of largest id among rows, largest first, as a property of q. *)
IsTopPage(q, rows, n) ==
    /\ Len(q) = Min(n, Cardinality(rows))
    /\ Range(q) \subseteq rows
    /\ StrictlyDescending(q)
    /\ \A r \in rows \ Range(q) : \A i \in 1..Len(q) : r.id < q[i].id

(* C1: with a cursor > 0 the page is the rows of id < cursor with the     *)
(* largest ids, at most 10, in strictly descending id order; it is empty, *)
(* and no error, when no row has id < cursor.                             *)
C1_PageBelowCursor ==
    [][(Fetched /\ cursor > 0) =>
          IsTopPage(page', {r \in articles : r.id < cursor}, 10)]_vars

C1_Witness ==
    /\ paging.state = "paging"
    /\ paging.first > 0
    /\ Len(page) = 10
    /\ seen = IdsOf(page)
    /\ \E r \in articles : r.id < cursor

(* C9: with a cursor <= 0 the page is the first page of the whole store:  *)
(* its up-to-10 rows of largest id, largest first.                        *)
C9_FirstPageOfWholeStore ==
    [][(Fetched /\ cursor <= 0) => IsTopPage(page', articles, 10)]_vars

NoDuplicates(q) ==
    \A i \in 1..Len(q) : \A j \in 1..Len(q) : i # j => q[i] # q[j]

(* C2: a traversal from cursor 0 that has reached the empty page has been *)
(* handed no id twice and every id that was committed when it started.    *)
C2_TraversalComplete ==
    (paging.state = "end" /\ paging.first = 0) =>
        /\ NoDuplicates(seen)
        /\ startIds \subseteq Range(seen)

(* The same traversal over a store whose ids are all below math.MaxInt32. *)
TraversalCompleteBelowMaxInt32 ==
    (paging.state = "end" /\ paging.first = 0 /\ MaxInt32 \notin startIds) =>
        /\ NoDuplicates(seen)
        /\ startIds \subseteq Range(seen)

----------------------------------------------------------------------------
(* ArticleListWithTags *)

TagSeqs == {<<>>, <<"go">>, <<"go", "sql">>}

(* What SELECT id, title scans into a *model.Article: the other fields    *)
(* keep their zero values, Tags is nil.                                   *)
Scanned(r) == [ID |-> r.id, Title |-> r.title, Tags |-> <<>>]

(* The orders in which a SELECT without ORDER BY may return the rows. *)
Orders(rows) ==
    {q \in [1..Cardinality(rows) -> rows] :
        \A i, j \in 1..Cardinality(rows) : i # j => q[i] # q[j]}

(* Lines 237-240: the ids of the fetched articles, in their order. *)
ArticleIDs(fs) == [i \in 1..Len(fs) |-> fs[i].ID]

(* TagListMapByArticleIDs(ids): a map holding a tag list for some of the  *)
(* ids asked for.                                                         *)
TagListMaps(ids) ==
    UNION {[K -> TagSeqs] : K \in SUBSET Range(ids)}

(* tagListMap[id]: a Go map yields the nil slice for a key it lacks. *)
TagsOf(m, id) == IF id \in DOMAIN m THEN m[id] ELSE <<>>

AttachTagsFirstKey(fs, m) ==
    [i \in 1..Len(fs) |-> [fs[i] EXCEPT !.Tags = TagsOf(m, fs[1].ID)]]

(* Lines 249-251: every fetched article gets the map's entry for its id. *)
AttachTags(fs, m) ==
    [i \in 1..Len(fs) |-> [fs[i] EXCEPT !.Tags = TagsOf(m, fs[i].ID)]]

(* Lines 229-234: the article query. *)
ListWithTagsQuery ==
    /\ calls.state = "idle"
    /\ \E ok \in BOOLEAN :
        IF ok
          THEN \E q \in Orders(articles) :
                 /\ fetched' = [i \in 1..Len(q) |-> Scanned(q[i])]
                 /\ calls' = [calls EXCEPT !.articles = @ + 1, !.state = "queried"]
          ELSE /\ fetched' = <<>>
               /\ calls' = [calls EXCEPT !.articles = @ + 1, !.state = "failed"]
    /\ UNCHANGED <<crudVars, pageVars, started, tagMap, result>>

(* Lines 237-253: the one tag call for all the ids, then the attach loop. *)
ListWithTagsAttach ==
    /\ calls.state = "queried"
    /\ LET ids == ArticleIDs(fetched)
       IN  \E ok \in BOOLEAN :
             IF ok
               THEN \E m \in TagListMaps(ids) :
                      /\ tagMap' = m
                      /\ result' = AttachTags(fetched, m)
                      /\ calls' = [calls EXCEPT !.tags = @ + 1, !.ids = ids,
                                                !.state = "done"]
               ELSE /\ result' = <<>>
                    /\ calls' = [calls EXCEPT !.tags = @ + 1, !.ids = ids,
                                              !.state = "failed"]
                    /\ UNCHANGED tagMap
    /\ UNCHANGED <<crudVars, pageVars, started, fetched>>

InitTags ==
    /\ InitCommon
    /\ \E S \in SUBSET (1..MaxTagged) :
        /\ articles = {Row(i, IF i = 1 THEN "t1" ELSE "t2", "b1", 0, 0, NULL) : i \in S}
        /\ lastId = MaxTagged
    /\ cursor = 0
    /\ paging = [state |-> "ready", first |-> 0]

NextTags ==
    \/ ListWithTagsQuery
    \/ ListWithTagsAttach

SpecTags == InitTags /\ [][NextTags]_vars

(* C10: a call of ArticleListWithTags that returned articles made one     *)
(* article query and one TagListMapByArticleIDs call, whose argument was  *)
(* the ids of all the fetched articles; it returns each article of the    *)
(* store once, with the map's entry for its id or with no tags when the   *)
(* map has no such key.  A call that failed returns no articles, after at *)
(* most one tag call.                                                     *)
C10_OneBatchCall ==
    /\ calls.state = "done" =>
         /\ calls.articles = 1
         /\ calls.tags = 1
         /\ Len(calls.ids) = Cardinality(articles)
         /\ Range(calls.ids) = Ids(articles)
         /\ Len(result) = Cardinality(articles)
         /\ \A r \in articles :
              Cardinality({i \in 1..Len(result) : result[i].ID = r.id}) = 1
         /\ \A i \in 1..Len(result) :
              /\ result[i].Title \in {r.title : r \in {s \in articles : s.id = result[i].ID}}
              /\ result[i].Tags =
                   IF result[i].ID \in DOMAIN tagMap
                      THEN tagMap[result[i].ID] ELSE <<>>
    /\ calls.state = "failed" =>
         /\ result = <<>>
         /\ calls.articles = 1
         /\ calls.tags <= 1

C10_Witness ==
    /\ calls.state = "done"
    /\ Len(result) = MaxTagged
    /\ \E i, j \in 1..Len(result) :
         /\ result[i].ID \notin DOMAIN tagMap
         /\ result[i].Tags = <<>>
         /\ result[j].ID \in DOMAIN tagMap
         /\ result[j].Tags # <<>>

====
